---------------------------- MODULE Spec2Model ----------------------------
(***************************************************************************)
(* mockextras.matchers: the Any, Contains and AnyOf matchers.              *)
(*                                                                         *)
(* A behaviour is the life of one matcher object: it is constructed and    *)
(* then compared (==, !=, with the matcher on either side) and displayed   *)
(* any number of times.  Python values are records [t |-> type, v |->      *)
(* payload]; text payloads are sequences of one-character strings so that  *)
(* the substring test and the iteration of a string are computed.          *)
(***************************************************************************)
EXTENDS Integers, Sequences, FiniteSets, TLC

VARIABLES
    matcher,    \* the matcher object: its class and its attributes
    ctorArgs,   \* the positional arguments the constructor was called with
    built,      \* the matcher as the constructor left it
    op,         \* the last operation performed
    other,      \* the candidate of the last comparison
    result      \* what the last operation returned or raised

vars == <<matcher, ctorArgs, built, op, other, result>>

(***************************************************************************)
(* Bounds of the model.                                                    *)
(***************************************************************************)
MaxInt == 4     \* the integers 1..MaxInt are candidates, needles and members
MaxArgs == 3    \* AnyOf is called with 0..MaxArgs positional arguments

(***************************************************************************)
(* Python values.                                                          *)
(***************************************************************************)
None == [t |-> "NoneType", v |-> 0]
PyInt(n) == [t |-> "int", v |-> n]
PyTrue == [t |-> "bool", v |-> 1]
PyStr(s) == [t |-> "str", v |-> s]
PyUnicode(s) == [t |-> "unicode", v |-> s]
PyList(s) == [t |-> "list", v |-> s]
PyTuple(s) == [t |-> "tuple", v |-> s]
PySet(s) == [t |-> "set", v |-> s]
PyFrozenSet(s) == [t |-> "frozenset", v |-> s]

hello == <<"h", "e", "l", "l", "o">>
ello == <<"e", "l", "l", "o">>
world == <<"w", "o", "r", "l", "d">>

Ints == {PyInt(n) : n \in 1..MaxInt}
Texts == {PyStr(hello), PyStr(ello), PyUnicode(hello)}
Atoms == {None, PyTrue} \cup Ints \cup Texts
Lists == {PyList(<<>>),
          PyList(<<PyInt(1), PyInt(2), PyInt(2), PyInt(3)>>),
          PyList(<<PyStr(hello), PyStr(world)>>)}
Tuples == {PyTuple(<<PyInt(1), PyInt(2)>>)}
Sets == {PySet({}), PySet({PyInt(1), PyInt(2)}), PyFrozenSet({PyInt(1), PyInt(2)})}
Values == Atoms \cup Lists \cup Tuples \cup Sets

\* the values AnyOf is called with when it gets two or more arguments
ArgValues == {PyInt(1), PyInt(2), PyInt(3), PyTrue, PyList(<<>>),
              PyFrozenSet({PyInt(1), PyInt(2)})}

(***************************************************************************)
(* The type hierarchy isinstance walks (Python 2 builtins).                *)
(***************************************************************************)
Types == {"object", "basestring", "str", "unicode", "int", "bool",
          "list", "tuple", "set", "frozenset", "NoneType"}

Base(t) ==
    CASE t = "str" -> "basestring"
      [] t = "unicode" -> "basestring"
      [] t = "bool" -> "int"
      [] OTHER -> "object"

RECURSIVE IsSubclass(_, _)
IsSubclass(a, b) ==
    IF a = b THEN TRUE
    ELSE IF a = "object" THEN FALSE
    ELSE IsSubclass(Base(a), b)

\* isinstance(other, cls), matchers.py line 103
isinstanceReversed(o, cls) == IsSubclass(cls, o.t)
isinstance(o, cls) == IsSubclass(o.t, cls)

(***************************************************************************)
(* Python equality and hashing of the values above.                        *)
(***************************************************************************)
IsNumber(x) == x.t \in {"int", "bool"}
IsText(x) == x.t \in {"str", "unicode"}

\* a == b for two atoms: True == 1, 'hello' == u'hello'
AtomEq(a, b) ==
    IF IsNumber(a) /\ IsNumber(b) THEN a.v = b.v
    ELSE IF IsText(a) /\ IsText(b) THEN a.v = b.v
    ELSE a.t = b.t /\ a.t = "NoneType"

IsAtom(x) == x.t \in {"NoneType", "int", "bool", "str", "unicode"}

IsSetLike(x) == x.t \in {"set", "frozenset"}

\* a == b for any two values; the elements of a list, a tuple or a compared
\* set are atoms; a set and a frozenset with the same elements are equal
PyEq(a, b) ==
    IF IsAtom(a) /\ IsAtom(b) THEN AtomEq(a, b)
    ELSE IF IsSetLike(a) /\ IsSetLike(b)
         THEN /\ \A x \in a.v : \E y \in b.v : AtomEq(x, y)
              /\ \A y \in b.v : \E x \in a.v : AtomEq(x, y)
    ELSE IF a.t # b.t THEN FALSE
    ELSE IF a.t \in {"list", "tuple"}
         THEN /\ Len(a.v) = Len(b.v)
              /\ \A i \in 1..Len(a.v) : AtomEq(a.v[i], b.v[i])
    ELSE FALSE

\* hash(x) succeeds: lists and sets are unhashable
Hashable(x) == x.t \notin {"list", "set"}

\* hasattr(x, '__iter__'): Python 2 text has no __iter__ method
hasattr__iter__(x) == x.t \in {"list", "tuple", "set", "frozenset"}

(***************************************************************************)
(* Outcomes of a call: a returned value or a raised exception.             *)
(***************************************************************************)
Return(x) == [exc |-> "none", val |-> x]
Raise(e) == [exc |-> e, val |-> FALSE]
Raised(r) == r.exc # "none"

PyNot(r) == IF Raised(r) THEN r ELSE Return(~r.val)

(***************************************************************************)
(* The membership test  x in c  as the builtin containers implement it.    *)
(***************************************************************************)
\* needle occurs in text as a contiguous run of characters
IsSubstring(needle, text) ==
    \E i \in 1..(Len(text) + 1) :
        /\ i + Len(needle) - 1 <= Len(text)
        /\ SubSeq(text, i, i + Len(needle) - 1) = needle

in(x, c) ==
    IF IsText(c)
    THEN \* 'in <string>' requires string as left operand
         IF IsText(x) THEN Return(IsSubstring(x.v, c.v)) ELSE Raise("TypeError")
    ELSE IF c.t \in {"list", "tuple"}
    THEN Return(\E i \in 1..Len(c.v) : PyEq(c.v[i], x))
    ELSE IF IsSetLike(c)
    THEN IF Hashable(x) THEN Return(\E y \in c.v : PyEq(y, x))
         \* an unhashable set is looked up as the frozenset of its elements
         ELSE IF x.t = "set" THEN Return(\E y \in c.v : PyEq(y, PyFrozenSet(x.v)))
         ELSE Raise("TypeError")
    ELSE \* argument of type ... is not iterable
         Raise("TypeError")

(***************************************************************************)
(* set(iterable)                                                           *)
(***************************************************************************)
Range(s) == {s[i] : i \in 1..Len(s)}

\* the elements of an iterable value, in iteration order
Elements(x) ==
    IF x.t \in {"list", "tuple"} THEN x.v
    ELSE IF IsSetLike(x)
    THEN CHOOSE s \in [1..Cardinality(x.v) -> x.v] : Range(s) = x.v
    ELSE [i \in 1..Len(x.v) |-> [t |-> x.t, v |-> <<x.v[i]>>]]

\* the members left after inserting seq's elements one by one: an element
\* equal to one already present is dropped
RECURSIVE Insert(_, _)
Insert(seq, acc) ==
    IF seq = <<>> THEN acc
    ELSE Insert(Tail(seq),
                IF \E y \in acc : PyEq(y, Head(seq)) THEN acc
                ELSE acc \cup {Head(seq)})

\* set(x) for one value x: a value that cannot be iterated raises
set(x) ==
    IF ~(hasattr__iter__(x) \/ IsText(x)) THEN Raise("TypeError")
    ELSE IF \E i \in 1..Len(Elements(x)) : ~Hashable(Elements(x)[i])
    THEN Raise("TypeError")
    ELSE Return(PySet(Insert(Elements(x), {})))

(***************************************************************************)
(* repr() and str() of the values and types above.                         *)
(***************************************************************************)
Digit(n) == <<"0", "1", "2", "3", "4", "5", "6", "7", "8", "9">>[n + 1]

RECURSIVE IntStr(_)
IntStr(n) == IF n < 10 THEN Digit(n) ELSE IntStr(n \div 10) \o Digit(n % 10)

RECURSIVE Join(_)
Join(chars) == IF chars = <<>> THEN "" ELSE Head(chars) \o Join(Tail(chars))

AtomRepr(x) ==
    CASE x.t = "NoneType" -> "None"
      [] x.t = "int" -> IntStr(x.v)
      [] x.t = "bool" -> IF x.v = 1 THEN "True" ELSE "False"
      [] x.t = "str" -> "'" \o Join(x.v) \o "'"
      [] x.t = "unicode" -> "u'" \o Join(x.v) \o "'"

\* the orders in which a set lists its elements: small integers come in
\* increasing order, other elements in the order of their hashes
Orders(x) ==
    IF ~IsSetLike(x) THEN {<<>>}
    ELSE LET all == {s \in [1..Cardinality(x.v) -> x.v] : Range(s) = x.v}
         IN  IF \A e \in x.v : e.t = "int"
             THEN {s \in all : \A i, j \in 1..Len(s) : i < j => s[i].v < s[j].v}
             ELSE all

\* repr of an element of a container: an atom or a frozenset of integers
ElemRepr(x) ==
    IF IsAtom(x) THEN AtomRepr(x)
    ELSE LET s == CHOOSE o \in Orders(x) : TRUE
         IN  "frozenset([" \o
             Join([i \in 1..Len(s) |->
                     IF i = 1 THEN AtomRepr(s[i]) ELSE ", " \o AtomRepr(s[i])])
             \o "])"

RECURSIVE CommaJoin(_)
CommaJoin(seq) ==
    IF seq = <<>> THEN ""
    ELSE IF Len(seq) = 1 THEN ElemRepr(seq[1])
    ELSE ElemRepr(Head(seq)) \o ", " \o CommaJoin(Tail(seq))

\* repr(x); order is the order in which a set lists its elements
repr(x, order) ==
    CASE IsAtom(x) -> AtomRepr(x)
      [] x.t = "list" -> "[" \o CommaJoin(x.v) \o "]"
      [] x.t = "tuple" ->
            IF Len(x.v) = 1 THEN "(" \o AtomRepr(x.v[1]) \o ",)"
            ELSE "(" \o CommaJoin(x.v) \o ")"
      [] x.t = "set" -> "set([" \o CommaJoin(order) \o "])"
      [] x.t = "frozenset" -> "frozenset([" \o CommaJoin(order) \o "])"

\* str(cls) of a builtin type
str(cls) == "<type '" \o cls \o "'>"

\* fmt % x with one conversion in fmt (shown is x converted): a tuple on the
\* right is the argument list itself
Format(prefix, x, shown, suffix) ==
    IF x.t = "tuple" /\ Len(x.v) # 1 THEN Raise("TypeError")
    ELSE IF x.t = "tuple" THEN Return(prefix \o AtomRepr(x.v[1]) \o suffix)
    ELSE Return(prefix \o shown \o suffix)

(***************************************************************************)
(* class Any                                                               *)
(***************************************************************************)
NoMatcher == [kind |-> "none"]

\* __init__(self, cls=object)
Any__init__(args) ==
    [kind |-> "Any", _cls |-> IF Len(args) = 0 THEN "object" ELSE args[1]]

Any__eq__ExactType(self, o) == [self |-> self, ret |-> Return(o.t = self._cls)]
Any__eq__(self, o) == [self |-> self, ret |-> Return(isinstance(o, self._cls))]

Any__ne__(self, o) ==
    LET r == Any__eq__(self, o) IN [self |-> r.self, ret |-> PyNot(r.ret)]

Any__repr__NoDefault(self) ==
    [self |-> self, ret |-> Return("Any(" \o str(self._cls) \o ")")]
Any__repr__(self) ==
    [self |-> self,
     ret |-> Return("Any(" \o (IF self._cls = "object" THEN ""
                               ELSE str(self._cls)) \o ")")]

(***************************************************************************)
(* class Contains                                                          *)
(***************************************************************************)
Contains__init__(args) == [kind |-> "Contains", _value |-> args[1]]

Contains__eq__Swapped(self, o) == [self |-> self, ret |-> in(o, self._value)]
Contains__eq__Swallowing(self, o) ==
    [self |-> self,
     ret |-> IF Raised(in(self._value, o)) THEN Return(FALSE) ELSE in(self._value, o)]
Contains__eq__(self, o) == [self |-> self, ret |-> in(self._value, o)]

Contains__ne__Swallow(self, o) ==
    LET r == Contains__eq__(self, o)
    IN  [self |-> r.self, ret |-> Return(Raised(r.ret) \/ ~r.ret.val)]
Contains__ne__(self, o) ==
    LET r == Contains__eq__(self, o) IN [self |-> r.self, ret |-> PyNot(r.ret)]

Contains__repr__(self, order) ==
    [self |-> self,
     ret |-> Format("Contains(", self._value, repr(self._value, order), ")")]

(***************************************************************************)
(* class AnyOf                                                             *)
(***************************************************************************)
\* set(args): the members are the arguments themselves
setOfArgs(args) == set(PyTuple(args))

\* set(*args) with at most one argument
setOfStarArgs(args) == IF Len(args) = 0 THEN Return(PySet({})) ELSE set(args[1])

AnyOf__init__Expanding(args) ==
    IF Len(args) > 1 \/ (Len(args) > 0 /\ ~hasattr__iter__(args[1]) /\ ~IsText(args[1]))
    THEN setOfArgs(args)
    ELSE setOfStarArgs(args)
AnyOf__init__(args) ==
    IF \/ Len(args) > 1
       \/ /\ Len(args) > 0
          /\ \/ ~hasattr__iter__(args[1])
             \/ isinstance(args[1], "basestring")
    THEN setOfArgs(args)
    ELSE setOfStarArgs(args)

AnyOf__eq__Caching(self, o) ==
    [self |-> IF Hashable(o) THEN [self EXCEPT !._set = PySet(Insert(<<o>>, @.v))]
              ELSE self,
     ret |-> in(o, self._set)]
AnyOf__eq__Negated(self, o) == [self |-> self, ret |-> PyNot(in(o, self._set))]
AnyOf__eq__(self, o) == [self |-> self, ret |-> in(o, self._set)]

AnyOf__ne__(self, o) ==
    LET r == AnyOf__eq__(self, o) IN [self |-> r.self, ret |-> PyNot(r.ret)]

AnyOf__repr__(self, order) ==
    [self |-> self,
     ret |-> Format("AnyOf(", self._set, repr(self._set, order), ")")]

(***************************************************************************)
(* The == and != operators with a matcher as one operand.                  *)
(***************************************************************************)
Method(self, name, o) ==
    CASE self.kind = "Any" /\ name = "__eq__" -> Any__eq__(self, o)
      [] self.kind = "Any" /\ name = "__ne__" -> Any__ne__(self, o)
      [] self.kind = "Contains" /\ name = "__eq__" -> Contains__eq__(self, o)
      [] self.kind = "Contains" /\ name = "__ne__" -> Contains__ne__(self, o)
      [] self.kind = "AnyOf" /\ name = "__eq__" -> AnyOf__eq__(self, o)
      [] self.kind = "AnyOf" /\ name = "__ne__" -> AnyOf__ne__(self, o)

\* matcher == o, matcher != o: the left operand's method answers
MatcherLeft(self, name, o) == Method(self, name, o)

\* The left operand's own comparison leaves the answer to the right operand
\* (it returns NotImplemented for an operand of a class it does not know).
\* The comparison of set and frozenset does so in some interpreter versions
\* and answers "not equal" itself in others.
Defers(o) == ~IsSetLike(o)

\* o == matcher: the outcomes of the comparison.  When the left operand
\* defers, the matcher's method is called with the operands swapped.
MatcherRightIdentity(o, name, self) == {[self |-> self, ret |-> Return(FALSE)]}
MatcherRight(o, name, self) ==
    {Method(self, name, o)} \cup
    (IF Defers(o) THEN {} ELSE {[self |-> self, ret |-> Return(name = "__ne__")]})

(***************************************************************************)
(* The life of one matcher.                                                *)
(***************************************************************************)
Init ==
    /\ matcher = NoMatcher
    /\ ctorArgs = <<>>
    /\ built = NoMatcher
    /\ op = "start"
    /\ other = None
    /\ result = Return(None)

\* Any() or Any(cls)
NewAny ==
    /\ op = "start"
    /\ \E args \in {<<>>} \cup {<<cls>> : cls \in Types} :
        /\ matcher' = Any__init__(args)
        /\ built' = Any__init__(args)
        /\ ctorArgs' = args
    /\ op' = "Any"
    /\ result' = Return(None)
    /\ UNCHANGED other

\* Contains(value)
NewContains ==
    /\ op = "start"
    /\ \E value \in Values :
        /\ matcher' = Contains__init__(<<value>>)
        /\ built' = Contains__init__(<<value>>)
        /\ ctorArgs' = <<value>>
    /\ op' = "Contains"
    /\ result' = Return(None)
    /\ UNCHANGED other

\* the argument lists AnyOf is called with
ArgLists ==
    {<<>>} \cup {<<x>> : x \in Values}
           \cup UNION {[1..n -> ArgValues] : n \in 2..MaxArgs}

\* AnyOf(*args); a constructor that raises leaves no matcher
NewAnyOf ==
    /\ op = "start"
    /\ \E args \in ArgLists :
        LET r == AnyOf__init__(args)
            obj == IF Raised(r) THEN NoMatcher
                   ELSE [kind |-> "AnyOf", _set |-> r.val]
        IN  /\ matcher' = obj
            /\ built' = obj
            /\ ctorArgs' = args
            /\ result' = IF Raised(r) THEN r ELSE Return(None)
    /\ op' = "AnyOf"
    /\ UNCHANGED other

Constructed == matcher.kind # "none"

\* matcher == o
Eq ==
    /\ Constructed
    /\ \E o \in Values :
        LET r == MatcherLeft(matcher, "__eq__", o)
        IN  /\ matcher' = r.self
            /\ result' = r.ret
            /\ other' = o
    /\ op' = "eq"
    /\ UNCHANGED <<ctorArgs, built>>

\* matcher != o
Ne ==
    /\ Constructed
    /\ \E o \in Values :
        LET r == MatcherLeft(matcher, "__ne__", o)
        IN  /\ matcher' = r.self
            /\ result' = r.ret
            /\ other' = o
    /\ op' = "ne"
    /\ UNCHANGED <<ctorArgs, built>>

\* o == matcher
ReflectedEq ==
    /\ Constructed
    /\ \E o \in Values :
        \E r \in MatcherRight(o, "__eq__", matcher) :
            /\ matcher' = r.self
            /\ result' = r.ret
            /\ other' = o
    /\ op' = "req"
    /\ UNCHANGED <<ctorArgs, built>>

\* repr(matcher)
Repr ==
    /\ Constructed
    /\ \E order \in Orders(IF matcher.kind = "Contains" THEN matcher._value
                           ELSE IF matcher.kind = "AnyOf" THEN matcher._set
                           ELSE None) :
        LET r == CASE matcher.kind = "Any" -> Any__repr__(matcher)
                   [] matcher.kind = "Contains" -> Contains__repr__(matcher, order)
                   [] matcher.kind = "AnyOf" -> AnyOf__repr__(matcher, order)
        IN  /\ matcher' = r.self
            /\ result' = r.ret
    /\ op' = "repr"
    /\ UNCHANGED <<ctorArgs, built, other>>

Next == NewAny \/ NewContains \/ NewAnyOf \/ Eq \/ Ne \/ ReflectedEq \/ Repr

Spec == Init /\ [][Next]_vars

(***************************************************************************)
(* Vocabulary of the properties.                                           *)
(***************************************************************************)
\* sub is cls or a subtype of cls in Python 2's builtin hierarchy
SubtypePairs ==
    {<<t, t>> : t \in Types} \cup {<<t, "object">> : t \in Types}
    \cup {<<"bool", "int">>, <<"str", "basestring">>, <<"unicode", "basestring">>}

\* text = prefix + needle + suffix for some prefix and suffix
OccursIn(needle, text) ==
    \E i, j \in 0..Len(text) :
        /\ i <= j
        /\ SubSeq(text, 1, i) \o needle \o SubSeq(text, j + 1, Len(text)) = text

\* x is found in c by c's membership test: a substring of a text, an element
\* of a list, tuple, set or frozenset
Found(x, c) ==
    IF IsText(c) THEN IsText(x) /\ OccursIn(x.v, c.v)
    ELSE IF c.t \in {"list", "tuple"} THEN \E i \in 1..Len(c.v) : PyEq(c.v[i], x)
    ELSE \E y \in c.v : PyEq(y, x)

SupportsMembership(c) == c.t \in {"str", "unicode", "list", "tuple", "set", "frozenset"}

\* c's membership test rejects x: text accepts only text, a set or frozenset
\* only what it can hash (or another set)
Rejects(c, x) ==
    \/ IsText(c) /\ ~IsText(x)
    \/ IsSetLike(c) /\ x.t = "list"

\* S holds the values of seq, each once: no two members are equal
MembersOf(S, seq) ==
    /\ \A i \in 1..Len(seq) : \E m \in S : PyEq(m, seq[i])
    /\ \A m \in S : \E i \in 1..Len(seq) : m = seq[i]
    /\ \A m, n \in S : PyEq(m, n) => m = n

\* the elements of a list, tuple, set or frozenset, in some order
ElementsOf(x) ==
    IF x.t \in {"list", "tuple"} THEN x.v
    ELSE CHOOSE s \in [1..Cardinality(x.v) -> x.v] : \A e \in x.v : \E i \in DOMAIN s : s[i] = e

IterableNotStringLike(x) == x.t \in {"list", "tuple", "set", "frozenset"}

(***************************************************************************)
(* C1: Any() built with no argument compares equal to every candidate,     *)
(* and the comparison never raises, whatever the candidate (None, lists    *)
(* and sets included).                                                     *)
(***************************************************************************)
C1_AnyDefaultMatchesEverything ==
    (built.kind = "Any" /\ ctorArgs = <<>> /\ op = "eq") => result = Return(TRUE)

C1_Witness ==
    /\ built.kind = "Any" /\ ctorArgs = <<>> /\ op = "eq"
    /\ other = PyList(<<>>) /\ result = Return(TRUE)

(***************************************************************************)
(* C2: Any(T) == v is true exactly when the type of v is T or a subtype    *)
(* of T; for an unrelated type it is False, never an exception.            *)
(***************************************************************************)
C2_AnyTypeMatchesSubtypes ==
    (built.kind = "Any" /\ Len(ctorArgs) = 1 /\ op = "eq")
        => result = Return(<<other.t, ctorArgs[1]>> \in SubtypePairs)

C2_Witness ==
    /\ built.kind = "Any" /\ ctorArgs = <<"int">> /\ op = "eq"
    /\ other = PyTrue /\ result = Return(TRUE)

(***************************************************************************)
(* C3 as stated: for every needle x and every candidate c that supports a  *)
(* membership test, Contains(x) == c is True if x is found in c and False  *)
(* otherwise.                                                              *)
(***************************************************************************)
C3_Original ==
    (built.kind = "Contains" /\ op = "eq" /\ SupportsMembership(other))
        => result = Return(Found(built._value, other))

(***************************************************************************)
(* C3 amended: for a candidate c that supports a membership test and whose *)
(* test accepts the needle x, Contains(x) == c is True if x is found in c  *)
(* and False otherwise; when c's test rejects x (a needle that is not text *)
(* against a text candidate, an unhashable list against a set or           *)
(* frozenset) the comparison raises TypeError.                             *)
(***************************************************************************)
C3_ContainsIsNativeMembership ==
    (built.kind = "Contains" /\ op = "eq" /\ SupportsMembership(other))
        => result = IF Rejects(other, built._value) THEN Raise("TypeError")
                    ELSE Return(Found(built._value, other))

C3_Witness ==
    /\ built.kind = "Contains" /\ op = "eq"
    /\ built._value = PyStr(ello) /\ other = PyStr(hello)
    /\ result = Return(TRUE)

(***************************************************************************)
(* C4 as stated: Contains(x) == c raises when c has no membership test,    *)
(* and AnyOf(...) == c raises when c is unhashable; neither returns False. *)
(***************************************************************************)
C4_Original ==
    /\ (built.kind = "Contains" /\ op = "eq" /\ ~SupportsMembership(other))
            => Raised(result)
    /\ (built.kind = "AnyOf" /\ op = "eq" /\ ~Hashable(other))
            => Raised(result)

(***************************************************************************)
(* C4 amended: Contains(x) == c raises TypeError when c has no membership  *)
(* test, and AnyOf(...) == c raises TypeError when c is unhashable and is  *)
(* not a set; an unhashable set candidate is looked up as the frozenset of *)
(* its elements and the comparison returns a boolean: True exactly when a  *)
(* member equals that frozenset.                                           *)
(***************************************************************************)
C4_IncompatibleCandidateRaises ==
    /\ (built.kind = "Contains" /\ op = "eq" /\ ~SupportsMembership(other))
            => result = Raise("TypeError")
    /\ (built.kind = "AnyOf" /\ op = "eq" /\ ~Hashable(other) /\ other.t # "set")
            => result = Raise("TypeError")
    /\ (built.kind = "AnyOf" /\ op = "eq" /\ other.t = "set")
            => result = Return(\E m \in built._set.v :
                                  m.t = "frozenset" /\ m.v = other.v)

C4_Witness ==
    /\ built.kind = "Contains" /\ op = "eq"
    /\ built._value = PyInt(1) /\ other = PyInt(4)
    /\ result = Raise("TypeError")

(***************************************************************************)
(* C5: a constructed AnyOf holds a deduplicated member set chosen by the   *)
(* call shape: the elements of the argument when there is exactly one      *)
(* argument and it is iterable and not string-like, the arguments          *)
(* themselves in every other shape.  AnyOf([1, 2, 2, 3]) holds 3 members   *)
(* and AnyOf("hello") holds the one member "hello".                        *)
(***************************************************************************)
C5_AnyOfMembersByCallShape ==
    built.kind = "AnyOf" =>
        /\ built._set.t = "set"
        /\ IF Len(ctorArgs) = 1 /\ IterableNotStringLike(ctorArgs[1])
           THEN MembersOf(built._set.v, ElementsOf(ctorArgs[1]))
           ELSE MembersOf(built._set.v, ctorArgs)
        /\ ctorArgs = <<PyList(<<PyInt(1), PyInt(2), PyInt(2), PyInt(3)>>)>>
              => Cardinality(built._set.v) = 3
        /\ ctorArgs = <<PyStr(hello)>> => built._set.v = {PyStr(hello)}

C5_Witness ==
    /\ built.kind = "AnyOf"
    /\ ctorArgs = <<PyList(<<PyInt(1), PyInt(2), PyInt(2), PyInt(3)>>)>>
    /\ built._set.v = {PyInt(1), PyInt(2), PyInt(3)}

(***************************************************************************)
(* C6: for a hashable candidate v, AnyOf(...) == v is True exactly when v  *)
(* equals a member of the set fixed at construction; AnyOf() with no       *)
(* argument matches no candidate.                                          *)
(***************************************************************************)
C6_AnyOfMatchesMembers ==
    (built.kind = "AnyOf" /\ op = "eq" /\ Hashable(other)) =>
        /\ result = Return(\E m \in built._set.v : PyEq(m, other))
        /\ ctorArgs = <<>> => result = Return(FALSE)

C6_Witness ==
    /\ built.kind = "AnyOf" /\ op = "eq"
    /\ ctorArgs = <<PyInt(1), PyInt(2), PyInt(3)>>
    /\ other = PyInt(2) /\ result = Return(TRUE)

(***************************************************************************)
(* C7: for Any, Contains and AnyOf, matcher != v is the negation of        *)
(* matcher == v when that returns, and raises the same exception when      *)
(* that raises.                                                            *)
(***************************************************************************)
C7_NeNegatesEq ==
    op = "ne" =>
        LET eq == Method(built, "__eq__", other).ret
        IN  IF eq.exc = "none"
            THEN result.exc = "none" /\ result.val = ~eq.val
            ELSE result.exc = eq.exc

C7_Witness ==
    /\ op = "ne" /\ built.kind = "Contains"
    /\ built._value = PyInt(1) /\ other = PyInt(4)
    /\ result = Raise("TypeError")

C9_MatcherImmutable == matcher = built

C9_Witness ==
    /\ built.kind = "AnyOf" /\ op = "eq" /\ Raised(result)
    /\ matcher._set = PySet({PyInt(1), PyInt(2), PyInt(3)})

(***************************************************************************)
(* C10 as stated: repr of an Any matcher is Any() for the type object and  *)
(* otherwise Any( + the name of the type + ).                              *)
(***************************************************************************)
C10_Original ==
    (built.kind = "Any" /\ op = "repr")
        => result = Return(IF built._cls = "object" THEN "Any()"
                           ELSE "Any(" \o built._cls \o ")")

(***************************************************************************)
(* C10 amended: repr of an Any matcher is Any() for the type object and    *)
(* otherwise Any( + str(type) + ), where str of a builtin type reads       *)
(* <type 'NAME'>: repr(Any(int)) is Any(<type 'int'>).                     *)
(***************************************************************************)
C10_AnyRepr ==
    (built.kind = "Any" /\ op = "repr")
        => result = Return(IF built._cls = "object" THEN "Any()"
                           ELSE "Any(<type '" \o built._cls \o "'>)")

C10_Witness ==
    /\ built.kind = "Any" /\ op = "repr" /\ built._cls = "int"
    /\ result = Return("Any(<type 'int'>)")

=============================================================================
